---- MODULE Spec2Model ----
(***************************************************************************)
(* A model of the glue code of ingress-gce shown in src/:                  *)
(*   - pkg/backends/features/cdn.go: EnsureCDN / applyCDNSettings          *)
(*   - pkg/composite (handwritten functions): the versioned setters        *)
(*   - pkg/metrics: the L4 ILB service counters                            *)
(*   - package e2e (test framework): RunWithSandboxFixed / Sandbox.Ensure  *)
(* Each component has its own specification (SpecCDN, SpecMetrics,         *)
(* SpecComposite, SpecSandbox); the variables of the other components stay *)
(* at their initial value.                                                 *)
(*                                                                         *)
(* Go values are represented as follows.  A pointer is a sequence of       *)
(* length 0 (nil) or 1 (the pointee).  A slice is a record                 *)
(* [isNil, elems], so that a nil slice and an empty slice differ, as they  *)
(* do for reflect.DeepEqual.  An error is a string, "nil" for no error.    *)
(***************************************************************************)
EXTENDS Integers, Sequences, FiniteSets, TLC

VARIABLES
    \* ---- pkg/backends/features/cdn.go
    cdnConfig,      \* sp.BackendConfig.Spec.Cdn (a pointer)
    be,             \* the composite.BackendService passed to EnsureCDN
    bePrev,         \* be as it was when the last EnsureCDN call started
    cdnRet,         \* outcome of the last EnsureCDN call
    \* ---- pkg/metrics (L4 ILB)
    l4ILBServiceMap,  \* ControllerMetrics.l4ILBServiceMap: service key -> state
    l4SetCalls,       \* number of SetL4ILBService calls made so far
    l4Counts          \* pointer to the map the last computeL4ILBMetrics call
                      \* returned; nil once a later SetL4ILBService call made it stale
,
    \* ---- pkg/composite (handwritten functions)
    compOp,         \* name of the function last invoked, "none" before any
    compIn,         \* its arguments: [key, resource, arg]
    compEnv,        \* what the cloud answered (or would have) during the invocation
    compOut,        \* what the invocation did: [calls, http, observed, ret, key]
    \* ---- e2e framework: RunWithSandboxFixed
    sandboxes,        \* f.sandboxes
    sbLock,           \* f.lock: the caller holding it, 0 when free
    destroySandboxes, \* f.destroySandboxes
    cluster,          \* the namespaces that exist in the cluster
    sbStarted,        \* number of RunWithSandboxFixed calls started so far
    sbProc            \* per caller: where its current call stands and what it saw

cdnVars == <<cdnConfig, be, bePrev, cdnRet>>
metricsVars == <<l4ILBServiceMap, l4SetCalls, l4Counts>>
compVars == <<compOp, compIn, compEnv, compOut>>
sandboxVars == <<sandboxes, sbLock, destroySandboxes, cluster, sbStarted, sbProc>>
vars == <<cdnVars, metricsVars, compVars, sandboxVars>>

(***************************************************************************)
(* Bounds                                                                  *)
(***************************************************************************)
MaxStaleSec == 1
MaxServices == 3
MaxSetCalls == 4
MaxCallers == 2
MaxCalls == 2

(***************************************************************************)
(* Go pointers and slices                                                  *)
(***************************************************************************)
NilPtr == <<>>
Ptr(v) == <<v>>
IsNil(p) == Len(p) = 0
Deref(p) == p[1]
PtrTo(S) == {NilPtr} \cup {Ptr(v) : v \in S}

NilSlice == [isNil |-> TRUE, elems |-> <<>>]
Slice(s) == [isNil |-> FALSE, elems |-> s]

(***************************************************************************)
(* CDN: the value sets the inputs are drawn from                           *)
(***************************************************************************)
CacheModes == {"CACHE_ALL_STATIC"}
StaleSecs == 0..MaxStaleSec
QueryStringLists == {NilSlice, Slice(<<>>), Slice(<<"utm">>)}

\* A cache key policy (backendconfig CacheKeyPolicy and composite.CacheKeyPolicy
\* have the same five fields).
BaseCacheKeyPolicy ==
    [IncludeHost |-> FALSE, IncludeProtocol |-> FALSE, IncludeQueryString |-> FALSE,
     QueryStringBlacklist |-> NilSlice, QueryStringWhitelist |-> NilSlice]

\* The base policy and every policy that differs from it in one field.
CacheKeyPolicies ==
    {BaseCacheKeyPolicy}
    \cup {[BaseCacheKeyPolicy EXCEPT !.IncludeHost = TRUE],
          [BaseCacheKeyPolicy EXCEPT !.IncludeProtocol = TRUE],
          [BaseCacheKeyPolicy EXCEPT !.IncludeQueryString = TRUE]}
    \cup {[BaseCacheKeyPolicy EXCEPT !.QueryStringBlacklist = l] : l \in QueryStringLists}
    \cup {[BaseCacheKeyPolicy EXCEPT !.QueryStringWhitelist = l] : l \in QueryStringLists}

\* backendconfig CDNConfig
CDNConfigs ==
    [Enabled : BOOLEAN,
     CachePolicy : PtrTo(CacheKeyPolicies),
     CacheMode : PtrTo(CacheModes),
     RequestCoalescing : PtrTo(BOOLEAN),
     ServeWhileStaleSec : PtrTo(StaleSecs)]

\* composite.BackendServiceCdnPolicy
CdnPolicies ==
    [CacheKeyPolicy : PtrTo(CacheKeyPolicies),
     CacheMode : {""} \cup CacheModes,
     RequestCoalescing : BOOLEAN,
     ServeWhileStale : StaleSecs]

\* composite.BackendService (its CDN fields)
BackendServices == [EnableCDN : BOOLEAN, CdnPolicy : PtrTo(CdnPolicies)]

\* &composite.BackendService{}
ZeroBackendService == [EnableCDN |-> FALSE, CdnPolicy |-> NilPtr]

\* &composite.CacheKeyPolicy{}
ZeroCacheKeyPolicy ==
    [IncludeHost |-> FALSE, IncludeProtocol |-> FALSE, IncludeQueryString |-> FALSE,
     QueryStringBlacklist |-> NilSlice, QueryStringWhitelist |-> NilSlice]

\* &composite.BackendServiceCdnPolicy{CacheKeyPolicy: &composite.CacheKeyPolicy{}}
NewCdnPolicy ==
    [CacheKeyPolicy |-> Ptr(ZeroCacheKeyPolicy), CacheMode |-> "",
     RequestCoalescing |-> FALSE, ServeWhileStale |-> 0]

(***************************************************************************)
(* applyCDNSettings, statement by statement.  Each step maps a record      *)
(* [panicked, be] to the next one; a dereference of a nil be.CdnPolicy      *)
(* panics and leaves be as the statements before it made it.               *)
(***************************************************************************)
ApplyEnabled(cfg, b) == [panicked |-> FALSE, be |-> [b EXCEPT !.EnableCDN = cfg.Enabled]]

ApplyCachePolicy(cfg, r) ==
    IF IsNil(cfg.CachePolicy) THEN r
    ELSE LET ckp == Deref(cfg.CachePolicy)
             copied == [ZeroCacheKeyPolicy EXCEPT
                           !.IncludeHost = ckp.IncludeHost,
                           !.IncludeProtocol = ckp.IncludeProtocol,
                           !.IncludeQueryString = ckp.IncludeQueryString,
                           !.QueryStringBlacklist = ckp.QueryStringBlacklist,
                           !.QueryStringWhitelist = ckp.QueryStringWhitelist]
         IN [r EXCEPT !.be.CdnPolicy =
                 Ptr([NewCdnPolicy EXCEPT !.CacheKeyPolicy = Ptr(copied)])]

\* if ptr != nil { be.CdnPolicy.<field> = *ptr }
ApplyPtrField(ptr, field, r) ==
    IF r.panicked \/ IsNil(ptr) THEN r
    ELSE IF IsNil(r.be.CdnPolicy) THEN [r EXCEPT !.panicked = TRUE]
    ELSE [r EXCEPT !.be.CdnPolicy =
             Ptr([Deref(r.be.CdnPolicy) EXCEPT ![field] = Deref(ptr)])]

applyCDNSettings(cfg, b) ==
    ApplyPtrField(cfg.ServeWhileStaleSec, "ServeWhileStale",
      ApplyPtrField(cfg.RequestCoalescing, "RequestCoalescing",
        ApplyPtrField(cfg.CacheMode, "CacheMode",
          ApplyCachePolicy(cfg, ApplyEnabled(cfg, b)))))

\* CDNDiffers without the "only compare CdnPolicy if it was specified" guard.
CDNDiffersUnguarded(beTemp, b) ==
    \/ beTemp.CdnPolicy # b.CdnPolicy
    \/ beTemp.EnableCDN # b.EnableCDN

\* The condition of EnsureCDN's if statement.
CDNDiffers(beTemp, b) ==
    \/ (~IsNil(beTemp.CdnPolicy) /\ beTemp.CdnPolicy # b.CdnPolicy)
    \/ beTemp.EnableCDN # b.EnableCDN

\* EnsureCDN: the outcome ("true", "false", or "panic") and be after it.
EnsureCDN(cdn, b) ==
    IF IsNil(cdn) THEN [ret |-> "false", be |-> b]
    ELSE LET cfg == Deref(cdn)
             temp == applyCDNSettings(cfg, ZeroBackendService)
         IN IF temp.panicked THEN [ret |-> "panic", be |-> b]
            ELSE IF CDNDiffers(temp.be, b)
                 THEN LET applied == applyCDNSettings(cfg, b)
                      IN [ret |-> IF applied.panicked THEN "panic" ELSE "true",
                          be |-> applied.be]
                 ELSE [ret |-> "false", be |-> b]

(***************************************************************************)
(* CDN: the state machine.  The configuration and the BackendService are   *)
(* inputs; EnsureCDN is called on them, any number of times.               *)
(***************************************************************************)
CdnIdle ==
    /\ cdnConfig = NilPtr
    /\ be = ZeroBackendService
    /\ bePrev = ZeroBackendService
    /\ cdnRet = "none"

CdnInit ==
    /\ cdnConfig \in PtrTo(CDNConfigs)
    /\ be \in BackendServices
    /\ bePrev = be
    /\ cdnRet = "none"

EnsureCDNCall ==
    LET r == EnsureCDN(cdnConfig, be)
    IN /\ bePrev' = be
       /\ be' = r.be
       /\ cdnRet' = r.ret
       /\ UNCHANGED <<cdnConfig, metricsVars, compVars, sandboxVars>>

(***************************************************************************)
(* Metrics: L4ILBServiceState, SetL4ILBService and computeL4ILBMetrics.    *)
(* Their code is not among the sources; they are modelled from the         *)
(* specification and from the calls and expectations of                    *)
(* TestComputeL4ILBMetrics.                                                *)
(***************************************************************************)
l4ILBService == "L4ILBService"
l4ILBGlobalAccess == "L4ILBGlobalAccess"
l4ILBCustomSubnet == "L4ILBCustomSubnet"
l4ILBInSuccess == "L4ILBInSuccess"
l4ILBInError == "L4ILBInError"

L4Features ==
    {l4ILBService, l4ILBGlobalAccess, l4ILBCustomSubnet, l4ILBInSuccess, l4ILBInError}

ServiceKeys == 1..MaxServices

L4ILBServiceState ==
    [EnabledGlobalAccess : BOOLEAN, EnabledCustomSubnet : BOOLEAN, InSuccess : BOOLEAN]

newL4ILBServiceState(globalAccess, customSubnet, inSuccess) ==
    [EnabledGlobalAccess |-> globalAccess,
     EnabledCustomSubnet |-> customSubnet,
     InSuccess |-> inSuccess]

\* NewControllerMetrics: no service stored.
NewControllerMetrics == <<>>

\* im.l4ILBServiceMap[svcKey] = state
MapStore(m, svcKey, state) ==
    [k \in DOMAIN m \cup {svcKey} |-> IF k = svcKey THEN state ELSE m[k]]

\* CountService counting the features of a service whatever its state.
CountServiceIgnoringState(counts, state) ==
    LET c1 == [counts EXCEPT ![l4ILBService] = @ + 1]
        c2 == IF state.InSuccess THEN [c1 EXCEPT ![l4ILBInSuccess] = @ + 1]
              ELSE [c1 EXCEPT ![l4ILBInError] = @ + 1]
        c3 == IF state.EnabledGlobalAccess THEN [c2 EXCEPT ![l4ILBGlobalAccess] = @ + 1]
              ELSE c2
    IN IF state.EnabledCustomSubnet THEN [c3 EXCEPT ![l4ILBCustomSubnet] = @ + 1] ELSE c3

\* CountService leaving a service in error out of every counter but
\* l4ILBInError.
CountServiceSkippingErrors(counts, state) ==
    IF ~state.InSuccess THEN [counts EXCEPT ![l4ILBInError] = @ + 1]
    ELSE LET c1 == [counts EXCEPT ![l4ILBService] = @ + 1]
             c2 == [c1 EXCEPT ![l4ILBInSuccess] = @ + 1]
             c3 == IF state.EnabledGlobalAccess
                   THEN [c2 EXCEPT ![l4ILBGlobalAccess] = @ + 1] ELSE c2
         IN IF state.EnabledCustomSubnet
            THEN [c3 EXCEPT ![l4ILBCustomSubnet] = @ + 1] ELSE c3

\* The body of the counting loop, for one stored service: a service in error
\* counts as a service and as a service in error, and nothing else.
CountService(counts, state) ==
    LET c1 == [counts EXCEPT ![l4ILBService] = @ + 1]
    IN IF ~state.InSuccess THEN [c1 EXCEPT ![l4ILBInError] = @ + 1]
       ELSE LET c2 == [c1 EXCEPT ![l4ILBInSuccess] = @ + 1]
                c3 == IF state.EnabledGlobalAccess
                      THEN [c2 EXCEPT ![l4ILBGlobalAccess] = @ + 1] ELSE c2
            IN IF state.EnabledCustomSubnet
               THEN [c3 EXCEPT ![l4ILBCustomSubnet] = @ + 1] ELSE c3

RECURSIVE CountAll(_, _, _)
CountAll(m, keys, counts) ==
    IF keys = {} THEN counts
    ELSE LET k == CHOOSE x \in keys : TRUE
         IN CountAll(m, keys \ {k}, CountService(counts, m[k]))

\* computeL4ILBMetrics: every feature starts at 0, then one pass over the map.
computeL4ILBMetrics(m) == CountAll(m, DOMAIN m, [f \in L4Features |-> 0])

MetricsIdle ==
    /\ l4ILBServiceMap = NewControllerMetrics
    /\ l4SetCalls = 0
    /\ l4Counts = NilPtr

SetL4ILBService(svcKey, state) ==
    /\ l4SetCalls < MaxSetCalls
    /\ l4ILBServiceMap' = MapStore(l4ILBServiceMap, svcKey, state)
    /\ l4SetCalls' = l4SetCalls + 1
    /\ l4Counts' = NilPtr
    /\ UNCHANGED <<cdnVars, compVars, sandboxVars>>

ComputeL4ILBMetricsCall ==
    /\ l4Counts' = Ptr(computeL4ILBMetrics(l4ILBServiceMap))
    /\ UNCHANGED <<l4ILBServiceMap, l4SetCalls, cdnVars, compVars, sandboxVars>>

SetL4ILBServiceCall ==
    \E k \in ServiceKeys, g \in BOOLEAN, c \in BOOLEAN, ok \in BOOLEAN :
        SetL4ILBService(k, newL4ILBServiceState(g, c, ok))

MetricsNext ==
    \/ SetL4ILBServiceCall
    \/ ComputeL4ILBMetricsCall

(***************************************************************************)
(* Composite: meta.Version, meta.Key and the cloud clients                 *)
(***************************************************************************)
VersionAlpha == "alpha"
VersionBeta == "beta"
VersionGA == "ga"
\* A composite resource's Version is a string; "" is what a resource built
\* without a version carries.
Versions == {VersionAlpha, VersionBeta, VersionGA, ""}

Global == "global"
Regional == "regional"
Zonal == "zonal"
Scopes == {Global, Regional, Zonal}

Keys == [Name : {"", "lb1"}, Region : {"", "us-central1"}, Zone : {"", "us-central1-a"}]

\* meta.Key.Type
KeyType(key) ==
    IF key.Zone # "" THEN Zonal
    ELSE IF key.Region # "" THEN Regional
    ELSE Global

\* meta.Key.Valid, for well-formed region and zone names
KeyValid(key) == ~(key.Zone # "" /\ key.Region # "")

\* meta.GlobalKey
GlobalKey(name) == [Name |-> name, Region |-> "", Zone |-> ""]

\* A service of the cloud's compute client: the API version it talks to, the
\* scope of its collection and the resource type.
Client(version, scope, resource) ==
    [version |-> version, scope |-> scope, resource |-> resource]

AlphaRegionTargetHttpsProxies == Client(VersionAlpha, Regional, "targetHttpsProxies")
AlphaTargetHttpsProxies == Client(VersionAlpha, Global, "targetHttpsProxies")
BetaRegionTargetHttpsProxies == Client(VersionBeta, Regional, "targetHttpsProxies")
BetaTargetHttpsProxies == Client(VersionBeta, Global, "targetHttpsProxies")
RegionTargetHttpsProxies == Client(VersionGA, Regional, "targetHttpsProxies")
TargetHttpsProxies == Client(VersionGA, Global, "targetHttpsProxies")

AlphaRegionTargetHttpProxies == Client(VersionAlpha, Regional, "targetHttpProxies")
AlphaTargetHttpProxies == Client(VersionAlpha, Global, "targetHttpProxies")
BetaRegionTargetHttpProxies == Client(VersionBeta, Regional, "targetHttpProxies")
BetaTargetHttpProxies == Client(VersionBeta, Global, "targetHttpProxies")
RegionTargetHttpProxies == Client(VersionGA, Regional, "targetHttpProxies")
TargetHttpProxies == Client(VersionGA, Global, "targetHttpProxies")

AlphaForwardingRules == Client(VersionAlpha, Regional, "forwardingRules")
AlphaGlobalForwardingRules == Client(VersionAlpha, Global, "forwardingRules")
BetaForwardingRules == Client(VersionBeta, Regional, "forwardingRules")
BetaGlobalForwardingRules == Client(VersionBeta, Global, "forwardingRules")
ForwardingRules == Client(VersionGA, Regional, "forwardingRules")
GlobalForwardingRules == Client(VersionGA, Global, "forwardingRules")

AlphaBackendServices == Client(VersionAlpha, Global, "backendServices")
BetaBackendServices == Client(VersionBeta, Global, "backendServices")
BackendServicesClient == Client(VersionGA, Global, "backendServices")

\* hackGceCloud(bs): a gceBackendServices around the cloud.Service of bs; it
\* talks to the same API version and collection as bs does.
hackGceCloud(bs) == bs

(***************************************************************************)
(* Composite: the cloud's answers, and what an invocation does             *)
(***************************************************************************)
NoError == "nil"
SdkErrors == {"googleapi: Error 503", "googleapi: Error 404"}
SdkResults == {NoError} \cup SdkErrors

\* sdk[i]: the result of the i-th call of a generated client method;
\* convFail: the versions to which the SignedUrlKey does not convert;
\* rl, do, wait: the results of RateLimiter.Accept, call.Do and
\* WaitForCompletion inside gceBackendServices.
QuietEnv ==
    [sdk |-> <<NoError, NoError>>, convFail |-> {}, rl |-> NoError,
     do |-> <<NoError, NoError>>, wait |-> NoError]

SdkEnvs == {[QuietEnv EXCEPT !.sdk = <<a, b>>] : a \in SdkResults, b \in SdkResults}

HackEnvs ==
    {[QuietEnv EXCEPT !.convFail = c, !.rl = r, !.do = <<d, NoError>>, !.wait = w] :
        c \in {{}, {VersionAlpha}, {VersionBeta}, {VersionGA}},
        r \in {NoError, "rate limited"},
        d \in SdkResults,
        w \in {NoError, "operation failed"}}

ProjectID == "proj"

\* metrics.NewMetricContext
NewMetricContext(resource, call, region, zone, version) ==
    [resource |-> resource, call |-> call, region |-> region, zone |-> zone,
     version |-> version]

\* MetricContext.Observe returns the error it is given, after recording it.
Observe(err) == err

\* An invocation that returns err without calling the cloud.
Return(key, err) ==
    [calls |-> <<>>, http |-> <<>>, observed |-> <<>>, ret |-> err, key |-> key]

\* One call of a client method.
SdkCall(client, method, key, arg, err) ==
    [client |-> client, method |-> method, key |-> key, arg |-> arg, err |-> err]

\* Issue, calling the client method again when it failed.
IssueWithRetry(mc, client, method, key, arg, env) ==
    LET first == SdkCall(client, method, key, arg, env.sdk[1])
        second == SdkCall(client, method, key, arg, env.sdk[2])
    IN IF env.sdk[1] = NoError
       THEN [calls |-> <<first>>, http |-> <<>>,
             observed |-> <<[mc |-> mc, err |-> env.sdk[1]]>>,
             ret |-> Observe(env.sdk[1]), key |-> key]
       ELSE [calls |-> <<first, second>>, http |-> <<>>,
             observed |-> <<[mc |-> mc, err |-> env.sdk[2]]>>,
             ret |-> Observe(env.sdk[2]), key |-> key]

\* return mc.Observe(gceCloud.Compute().<client>().<method>(ctx, key, arg))
Issue(mc, client, method, key, arg, env) ==
    LET err == env.sdk[1]
    IN [calls |-> <<SdkCall(client, method, key, arg, err)>>, http |-> <<>>,
        observed |-> <<[mc |-> mc, err |-> err]>>,
        ret |-> Observe(err), key |-> key]

\* switch version { alpha: ...; beta: ...; default: ... }
VersionCase(version, alpha, beta, ga) ==
    IF version = VersionAlpha THEN alpha
    ELSE IF version = VersionBeta THEN beta
    ELSE ga

\* The API version whose types the request value is built from.
TypedRef(version, field, value) == [api |-> version, field |-> field, value |-> value]

(***************************************************************************)
(* Composite: the setters of proxies and forwarding rules                  *)
(***************************************************************************)
SetUrlMapForTargetHttpsProxy(key0, targetHttpsProxy, urlMapLink, env) ==
    LET mc == NewMetricContext("TargetHttpsProxy", "set_url_map", key0.Region, key0.Zone,
                               targetHttpsProxy.Version)
        key == [key0 EXCEPT !.Name = targetHttpsProxy.Name]
        api == VersionCase(targetHttpsProxy.Version, VersionAlpha, VersionBeta, VersionGA)
        ref == TypedRef(api, "UrlMap", urlMapLink)
        regional == KeyType(key) = Regional
    IN VersionCase(targetHttpsProxy.Version,
         IF regional THEN Issue(mc, AlphaRegionTargetHttpsProxies, "SetUrlMap", key, ref, env)
         ELSE Issue(mc, AlphaTargetHttpsProxies, "SetUrlMap", key, ref, env),
         IF regional THEN Issue(mc, BetaRegionTargetHttpsProxies, "SetUrlMap", key, ref, env)
         ELSE Issue(mc, BetaTargetHttpsProxies, "SetUrlMap", key, ref, env),
         IF regional THEN Issue(mc, RegionTargetHttpsProxies, "SetUrlMap", key, ref, env)
         ELSE Issue(mc, TargetHttpsProxies, "SetUrlMap", key, ref, env))

SetSslCertificateForTargetHttpsProxy(key0, targetHttpsProxy, sslCertURLs, env) ==
    LET mc == NewMetricContext("TargetHttpsProxy", "set_ssl_certificate", key0.Region,
                               key0.Zone, targetHttpsProxy.Version)
        key == [key0 EXCEPT !.Name = targetHttpsProxy.Name]
        api == VersionCase(targetHttpsProxy.Version, VersionAlpha, VersionBeta, VersionGA)
        regional == KeyType(key) = Regional
        \* Region...SetSslCertificatesRequest or ...SetSslCertificatesRequest
        req == [api |-> api,
                field |-> "SslCertificates",
                type |-> IF regional THEN "RegionTargetHttpsProxiesSetSslCertificatesRequest"
                         ELSE "TargetHttpsProxiesSetSslCertificatesRequest",
                value |-> sslCertURLs]
    IN VersionCase(targetHttpsProxy.Version,
         IF regional
         THEN Issue(mc, AlphaRegionTargetHttpsProxies, "SetSslCertificates", key, req, env)
         ELSE Issue(mc, AlphaTargetHttpsProxies, "SetSslCertificates", key, req, env),
         IF regional
         THEN Issue(mc, BetaRegionTargetHttpsProxies, "SetSslCertificates", key, req, env)
         ELSE Issue(mc, BetaTargetHttpsProxies, "SetSslCertificates", key, req, env),
         IF regional
         THEN Issue(mc, RegionTargetHttpsProxies, "SetSslCertificates", key, req, env)
         ELSE Issue(mc, TargetHttpsProxies, "SetSslCertificates", key, req, env))

ErrSslPolicyRegional == "SetSslPolicy() is not supported for regional Target Https Proxies"

\* SetSslPolicyForTargetHttpsProxy without the refusal of regional keys.
SetSslPolicyAlsoRegional(key0, targetHttpsProxy, SslPolicyLink, env) ==
    LET mc == NewMetricContext("TargetHttpProxy", "set_url_map", key0.Region, key0.Zone,
                               targetHttpsProxy.Version)
        key == [key0 EXCEPT !.Name = targetHttpsProxy.Name]
        api == VersionCase(targetHttpsProxy.Version, VersionAlpha, VersionBeta, VersionGA)
        ref == TypedRef(api, "SslPolicy", SslPolicyLink)
    IN VersionCase(targetHttpsProxy.Version,
         Issue(mc, AlphaTargetHttpsProxies, "SetSslPolicy", key, ref, env),
         Issue(mc, BetaTargetHttpsProxies, "SetSslPolicy", key, ref, env),
         Issue(mc, TargetHttpsProxies, "SetSslPolicy", key, ref, env))

SetSslPolicyForTargetHttpsProxy(key0, targetHttpsProxy, SslPolicyLink, env) ==
    LET mc == NewMetricContext("TargetHttpProxy", "set_url_map", key0.Region, key0.Zone,
                               targetHttpsProxy.Version)
        key == [key0 EXCEPT !.Name = targetHttpsProxy.Name]
        api == VersionCase(targetHttpsProxy.Version, VersionAlpha, VersionBeta, VersionGA)
        ref == TypedRef(api, "SslPolicy", SslPolicyLink)
        regional == KeyType(key) = Regional
    IN VersionCase(targetHttpsProxy.Version,
         IF regional THEN Return(key, ErrSslPolicyRegional)
         ELSE Issue(mc, AlphaTargetHttpsProxies, "SetSslPolicy", key, ref, env),
         IF regional THEN Return(key, ErrSslPolicyRegional)
         ELSE Issue(mc, BetaTargetHttpsProxies, "SetSslPolicy", key, ref, env),
         IF regional THEN Return(key, ErrSslPolicyRegional)
         ELSE Issue(mc, TargetHttpsProxies, "SetSslPolicy", key, ref, env))

SetUrlMapForTargetHttpProxy(key0, targetHttpProxy, urlMapLink, env) ==
    LET mc == NewMetricContext("TargetHttpProxy", "set_url_map", key0.Region, key0.Zone,
                               targetHttpProxy.Version)
        key == [key0 EXCEPT !.Name = targetHttpProxy.Name]
        api == VersionCase(targetHttpProxy.Version, VersionAlpha, VersionBeta, VersionGA)
        ref == TypedRef(api, "UrlMap", urlMapLink)
        regional == KeyType(key) = Regional
    IN VersionCase(targetHttpProxy.Version,
         IF regional THEN Issue(mc, AlphaRegionTargetHttpProxies, "SetUrlMap", key, ref, env)
         ELSE Issue(mc, AlphaTargetHttpProxies, "SetUrlMap", key, ref, env),
         IF regional THEN Issue(mc, BetaRegionTargetHttpProxies, "SetUrlMap", key, ref, env)
         ELSE Issue(mc, BetaTargetHttpProxies, "SetUrlMap", key, ref, env),
         IF regional THEN Issue(mc, RegionTargetHttpProxies, "SetUrlMap", key, ref, env)
         ELSE Issue(mc, TargetHttpProxies, "SetUrlMap", key, ref, env))

\* SetProxyForForwardingRule with the regional and the global service of each
\* version taken for one another.
SetProxySwappedScope(key0, forwardingRule, targetProxyLink, env) ==
    LET mc == NewMetricContext("ForwardingRule", "set_proxy", key0.Region, key0.Zone,
                               forwardingRule.Version)
        key == [key0 EXCEPT !.Name = forwardingRule.Name]
        api == VersionCase(forwardingRule.Version, VersionAlpha, VersionBeta, VersionGA)
        target == TypedRef(api, "Target", targetProxyLink)
        regional == KeyType(key) = Regional
    IN VersionCase(forwardingRule.Version,
         IF regional THEN Issue(mc, AlphaGlobalForwardingRules, "SetTarget", key, target, env)
         ELSE Issue(mc, AlphaForwardingRules, "SetTarget", key, target, env),
         IF regional THEN Issue(mc, BetaGlobalForwardingRules, "SetTarget", key, target, env)
         ELSE Issue(mc, BetaForwardingRules, "SetTarget", key, target, env),
         IF regional THEN Issue(mc, GlobalForwardingRules, "SetTarget", key, target, env)
         ELSE Issue(mc, ForwardingRules, "SetTarget", key, target, env))

SetProxyForForwardingRule(key0, forwardingRule, targetProxyLink, env) ==
    LET mc == NewMetricContext("ForwardingRule", "set_proxy", key0.Region, key0.Zone,
                               forwardingRule.Version)
        key == [key0 EXCEPT !.Name = forwardingRule.Name]
        api == VersionCase(forwardingRule.Version, VersionAlpha, VersionBeta, VersionGA)
        target == TypedRef(api, "Target", targetProxyLink)
        regional == KeyType(key) = Regional
    IN VersionCase(forwardingRule.Version,
         IF regional THEN Issue(mc, AlphaForwardingRules, "SetTarget", key, target, env)
         ELSE Issue(mc, AlphaGlobalForwardingRules, "SetTarget", key, target, env),
         IF regional THEN Issue(mc, BetaForwardingRules, "SetTarget", key, target, env)
         ELSE Issue(mc, BetaGlobalForwardingRules, "SetTarget", key, target, env),
         IF regional THEN Issue(mc, ForwardingRules, "SetTarget", key, target, env)
         ELSE Issue(mc, GlobalForwardingRules, "SetTarget", key, target, env))

(***************************************************************************)
(* Composite: SetSecurityPolicy                                            *)
(***************************************************************************)
\* cloud.SelfLink: the URL of a resource, as its path segments.
SelfLink(ver, project, resource, key) ==
    LET prefix == IF ver = VersionAlpha THEN "https://www.googleapis.com/compute/alpha"
                  ELSE IF ver = VersionBeta THEN "https://www.googleapis.com/compute/beta"
                  ELSE IF ver = VersionGA THEN "https://www.googleapis.com/compute/v1"
                  ELSE "invalid-prefix"
    IN IF KeyType(key) = Zonal
       THEN <<prefix, "projects", project, "zones", key.Zone, resource, key.Name>>
       ELSE IF KeyType(key) = Regional
       THEN <<prefix, "projects", project, "regions", key.Region, resource, key.Name>>
       ELSE <<prefix, "projects", project, "global", resource, key.Name>>

ErrSecurityPolicyScope == "cloud armor security policies not supported"

\* SecurityPolicyRef with the link built for the GA API in every branch.
SecurityPolicyRefGALink(ver, securityPolicy) ==
    IF securityPolicy # ""
    THEN Ptr(TypedRef(ver, "SecurityPolicy",
                      SelfLink(VersionGA, ProjectID, "securityPolicies",
                               GlobalKey(securityPolicy))))
    ELSE NilPtr

\* var ref *SecurityPolicyReference; if securityPolicy != "" { ref = &...{link} }
SecurityPolicyRef(ver, securityPolicy) ==
    IF securityPolicy # ""
    THEN Ptr(TypedRef(ver, "SecurityPolicy",
                      SelfLink(ver, ProjectID, "securityPolicies", GlobalKey(securityPolicy))))
    ELSE NilPtr

\* SetSecurityPolicy without the check of the backend service's scope.
SetSecurityPolicyAnyScope(backendService, securityPolicy, env) ==
    LET key == GlobalKey(backendService.Name)
        mc == NewMetricContext("BackendService", "set_security_policy", key.Region, key.Zone,
                               backendService.Version)
    IN VersionCase(backendService.Version,
            Issue(mc, AlphaBackendServices, "SetSecurityPolicy", key,
                  SecurityPolicyRef(VersionAlpha, securityPolicy), env),
            Issue(mc, BetaBackendServices, "SetSecurityPolicy", key,
                  SecurityPolicyRef(VersionBeta, securityPolicy), env),
            Issue(mc, BackendServicesClient, "SetSecurityPolicy", key,
                  SecurityPolicyRef(VersionGA, securityPolicy), env))

SetSecurityPolicy(backendService, securityPolicy, env) ==
    LET key == GlobalKey(backendService.Name)
        mc == NewMetricContext("BackendService", "set_security_policy", key.Region, key.Zone,
                               backendService.Version)
    IN IF backendService.Scope # Global THEN Return(key, ErrSecurityPolicyScope)
       ELSE VersionCase(backendService.Version,
            Issue(mc, AlphaBackendServices, "SetSecurityPolicy", key,
                  SecurityPolicyRef(VersionAlpha, securityPolicy), env),
            Issue(mc, BetaBackendServices, "SetSecurityPolicy", key,
                  SecurityPolicyRef(VersionBeta, securityPolicy), env),
            Issue(mc, BackendServicesClient, "SetSecurityPolicy", key,
                  SecurityPolicyRef(VersionGA, securityPolicy), env))

(***************************************************************************)
(* Composite: signed URL keys                                              *)
(***************************************************************************)
ErrConversion == "error converting SignedUrlKey"
ErrInvalidKey == "invalid GCE key"

\* SignedUrlKey.ToAlpha / ToBeta / ToGA: the key as a value of that version's
\* API type, or an error.
ToVersion(signedUrlKey, ver, env) ==
    IF ver \in env.convFail
    THEN [err |-> ErrConversion, val |-> NilPtr]
    ELSE [err |-> NoError,
          val |-> Ptr([api |-> ver, KeyName |-> signedUrlKey.KeyName,
                       KeyValue |-> signedUrlKey.KeyValue])]

\* A request sent by a generated REST service g.s.<API>.<Service>.<method>.
HttpRequest(api, scope, resource, method, project, name, body, err) ==
    [api |-> api, scope |-> scope, resource |-> resource, method |-> method,
     project |-> project, name |-> name, body |-> body, err |-> err]

\* gceBackendServices.AddSignedUrlKey: [http, err]
gceBackendServices_AddSignedUrlKey(g, key, signedUrlKey, env) ==
    LET arg0 == ToVersion(signedUrlKey, VersionGA, env)
        req == HttpRequest(VersionGA, Global, "backendServices", "AddSignedUrlKey",
                           ProjectID, key.Name, arg0.val, env.do[1])
    IN IF arg0.err # NoError THEN [http |-> <<>>, err |-> arg0.err]
       ELSE IF ~KeyValid(key) THEN [http |-> <<>>, err |-> ErrInvalidKey]
       ELSE IF env.rl # NoError THEN [http |-> <<>>, err |-> env.rl]
       ELSE IF env.do[1] # NoError THEN [http |-> <<req>>, err |-> env.do[1]]
       ELSE [http |-> <<req>>, err |-> env.wait]

\* gceBackendServices.DeleteSignedUrlKey: [http, err]
gceBackendServices_DeleteSignedUrlKey(g, key, keyName, env) ==
    LET req == HttpRequest(VersionGA, Global, "backendServices", "DeleteSignedUrlKey",
                           ProjectID, key.Name, keyName, env.do[1])
    IN IF ~KeyValid(key) THEN [http |-> <<>>, err |-> ErrInvalidKey]
       ELSE IF env.rl # NoError THEN [http |-> <<>>, err |-> env.rl]
       ELSE IF env.do[1] # NoError THEN [http |-> <<req>>, err |-> env.do[1]]
       ELSE [http |-> <<req>>, err |-> env.wait]

\* return mc.Observe(hackGceCloud(...).<method>(ctx, key, arg)), given what
\* the method did.
IssueHack(mc, client, method, key, arg, r) ==
    [calls |-> <<SdkCall(client, method, key, arg, r.err)>>, http |-> r.http,
     observed |-> <<[mc |-> mc, err |-> r.err]>>,
     ret |-> Observe(r.err), key |-> key]

AddSignedUrlKey(key, backendService, signedUrlKey, env) ==
    LET mc == NewMetricContext("BackendService", "addSignedUrlKey", key.Region, key.Zone,
                               backendService.Version)
        g == hackGceCloud(BackendServicesClient)
        add == IssueHack(mc, g, "AddSignedUrlKey", key, signedUrlKey,
                         gceBackendServices_AddSignedUrlKey(g, key, signedUrlKey, env))
        regional == KeyType(key) = Regional
        alphaKey == ToVersion(signedUrlKey, VersionAlpha, env)
        betaKey == ToVersion(signedUrlKey, VersionBeta, env)
        gaKey == ToVersion(signedUrlKey, VersionGA, env)
    IN VersionCase(backendService.Version,
         IF alphaKey.err # NoError THEN Return(key, alphaKey.err)
         ELSE IF regional THEN add ELSE add,
         IF betaKey.err # NoError THEN Return(key, betaKey.err)
         ELSE IF regional THEN add ELSE add,
         IF gaKey.err # NoError THEN Return(key, gaKey.err)
         ELSE IF regional THEN add ELSE add)

DeleteSignedUrlKey(key, backendService, keyName, env) ==
    LET mc == NewMetricContext("BackendService", "deleteSignedUrlKey", key.Region, key.Zone,
                               backendService.Version)
        g == hackGceCloud(BackendServicesClient)
        delete == IssueHack(mc, g, "DeleteSignedUrlKey", key, keyName,
                            gceBackendServices_DeleteSignedUrlKey(g, key, keyName, env))
        regional == KeyType(key) = Regional
    IN VersionCase(backendService.Version,
         IF regional THEN delete ELSE delete,
         IF regional THEN delete ELSE delete,
         IF regional THEN delete ELSE delete)

(***************************************************************************)
(* Composite: the state machine.  Every action is one invocation of one    *)
(* function, on arguments and cloud answers drawn from small sets.         *)
(***************************************************************************)
Proxies == [Name : {"px1"}, Version : Versions]
BackendServiceRefs == [Name : {"bs1"}, Version : Versions, Scope : Scopes \cup {""}]
Links == {"link-a", "link-b"}
SslCertURLLists == {Slice(<<>>), Slice(<<"cert-a">>), Slice(<<"cert-a", "cert-b">>)}
SecurityPolicyNames == {"", "policy-a"}
SignedUrlKeys == [KeyName : {"key-a", "key-b"}, KeyValue : {"c2VjcmV0"}]

NoInvocation ==
    [key |-> GlobalKey(""), resource |-> [Name |-> "", Version |-> ""], arg |-> ""]

CompIdle ==
    /\ compOp = "none"
    /\ compIn = NoInvocation
    /\ compEnv = QuietEnv
    /\ compOut = Return(GlobalKey(""), NoError)

\* The functions keep nothing between invocations: one runs at a time, and
\* its record is dropped (CompReturn) before the next one starts.
Invoke(op, key, resource, arg, env, out) ==
    /\ compOp' = op
    /\ compIn' = [key |-> key, resource |-> resource, arg |-> arg]
    /\ compEnv' = env
    /\ compOut' = out
    /\ UNCHANGED <<cdnVars, metricsVars, sandboxVars>>

SetUrlMapForTargetHttpsProxyCall ==
    /\ compOp = "none"
    /\ \E key \in Keys, proxy \in Proxies, link \in Links, env \in SdkEnvs :
        Invoke("SetUrlMapForTargetHttpsProxy", key, proxy, link, env,
               SetUrlMapForTargetHttpsProxy(key, proxy, link, env))

SetSslCertificateForTargetHttpsProxyCall ==
    /\ compOp = "none"
    /\ \E key \in Keys, proxy \in Proxies, urls \in SslCertURLLists, env \in SdkEnvs :
        Invoke("SetSslCertificateForTargetHttpsProxy", key, proxy, urls, env,
               SetSslCertificateForTargetHttpsProxy(key, proxy, urls, env))

SetSslPolicyForTargetHttpsProxyCall ==
    /\ compOp = "none"
    /\ \E key \in Keys, proxy \in Proxies, link \in Links, env \in SdkEnvs :
        Invoke("SetSslPolicyForTargetHttpsProxy", key, proxy, link, env,
               SetSslPolicyForTargetHttpsProxy(key, proxy, link, env))

SetUrlMapForTargetHttpProxyCall ==
    /\ compOp = "none"
    /\ \E key \in Keys, proxy \in Proxies, link \in Links, env \in SdkEnvs :
        Invoke("SetUrlMapForTargetHttpProxy", key, proxy, link, env,
               SetUrlMapForTargetHttpProxy(key, proxy, link, env))

SetProxyForForwardingRuleCall ==
    /\ compOp = "none"
    /\ \E key \in Keys, rule \in Proxies, link \in Links, env \in SdkEnvs :
        Invoke("SetProxyForForwardingRule", key, rule, link, env,
               SetProxyForForwardingRule(key, rule, link, env))

\* SetSecurityPolicy takes no key: the invocation records the zero key.
SetSecurityPolicyCall ==
    /\ compOp = "none"
    /\ \E bs \in BackendServiceRefs, policy \in SecurityPolicyNames, env \in SdkEnvs :
        Invoke("SetSecurityPolicy", GlobalKey(""), bs, policy, env,
               SetSecurityPolicy(bs, policy, env))

AddSignedUrlKeyCall ==
    /\ compOp = "none"
    /\ \E key \in Keys, bs \in BackendServiceRefs, suk \in SignedUrlKeys, env \in HackEnvs :
        Invoke("AddSignedUrlKey", key, bs, suk, env, AddSignedUrlKey(key, bs, suk, env))

DeleteSignedUrlKeyCall ==
    /\ compOp = "none"
    /\ \E key \in Keys, bs \in BackendServiceRefs, keyName \in {"key-a", "key-b"},
       env \in HackEnvs :
        Invoke("DeleteSignedUrlKey", key, bs, keyName, env,
               DeleteSignedUrlKey(key, bs, keyName, env))

CompReturn ==
    /\ compOp # "none"
    /\ compOp' = "none"
    /\ compIn' = NoInvocation
    /\ compEnv' = QuietEnv
    /\ compOut' = Return(GlobalKey(""), NoError)
    /\ UNCHANGED <<cdnVars, metricsVars, sandboxVars>>

CompNext ==
    \/ CompReturn
    \/ SetUrlMapForTargetHttpsProxyCall
    \/ SetSslCertificateForTargetHttpsProxyCall
    \/ SetSslPolicyForTargetHttpsProxyCall
    \/ SetUrlMapForTargetHttpProxyCall
    \/ SetProxyForForwardingRuleCall
    \/ SetSecurityPolicyCall
    \/ AddSignedUrlKeyCall
    \/ DeleteSignedUrlKeyCall

(***************************************************************************)
(* e2e framework: RunWithSandboxFixed and Sandbox.Ensure.  Callers run     *)
(* concurrently (parallel subtests); each statement that touches the       *)
(* framework or the cluster is one step of its caller.  An error is the    *)
(* sequence of the parts of its message, the empty sequence for nil.       *)
(***************************************************************************)
Callers == 1..MaxCallers
Namespaces == {"ns-a", "ns-b"}

NilError == <<>>
AlreadyExistsSuffix == "already exists"
ErrAlreadyExists(ns) == <<"namespaces", ns, AlreadyExistsSuffix>>
\* Failures of Namespaces().Create other than "already exists"; the second
\* one holds the words, but not at its end.
OtherCreateErrors ==
    {<<"namespaces is forbidden">>,
     <<"admission webhook denied the request:", AlreadyExistsSuffix, "in another cluster">>}
ErrValidatorEnv == <<"unable to create validator env">>

\* strings.HasSuffix(err.Error(), suffix), on the parts of the message
HasSuffix(msg, suffix) == Len(msg) > 0 /\ msg[Len(msg)] = suffix

\* CreateErrorIsFatal taking every creation error as a failure.
CreateErrorAlwaysFatal(err) == err # NilError

\* err != nil && !strings.HasSuffix(err.Error(), "already exists")
CreateErrorIsFatal(err) == err # NilError /\ ~HasSuffix(err, AlreadyExistsSuffix)

\* What Namespaces().Create may answer for ns in a cluster.
CreateAnswers(ns) ==
    (IF ns \in cluster THEN {ErrAlreadyExists(ns)} ELSE {NilError}) \cup OtherCreateErrors

\* &Sandbox{Namespace: sanboxNamespace, f: f, RandInt: 0}; id tells one
\* allocation from another.
NewSandbox(id, sanboxNamespace) ==
    [id |-> id, Namespace |-> sanboxNamespace, RandInt |-> 0, ValidatorEnv |-> NilPtr]

\* The identities of the sandboxes that the framework or a call still holds.
SandboxIdsInUse ==
    {sandboxes[i].id : i \in 1..Len(sandboxes)} \cup
    {Deref(sbProc[q].sandbox).id : q \in {r \in Callers : ~IsNil(sbProc[r].sandbox)}}

\* The identity of a new allocation: one that no sandbox still held has.
FreshSandboxId ==
    CHOOSE n \in 1..(Cardinality(SandboxIdsInUse) + 1) : n \notin SandboxIdsInUse

\* A caller that is in no call.
NoCall ==
    [pc |-> "idle", ns |-> "", sandbox |-> NilPtr, createErr |-> NilError,
     created |-> FALSE, envErr |-> NilError, ensureRet |-> NilError,
     ensured |-> FALSE, fatal |-> "",
     ran |-> NilPtr, dumped |-> FALSE, destroyed |-> FALSE]

SandboxIdle ==
    /\ sandboxes = <<>>
    /\ sbLock = 0
    /\ destroySandboxes = FALSE
    /\ cluster = {}
    /\ sbStarted = 0
    /\ sbProc = [p \in Callers |-> NoCall]

SandboxInit ==
    /\ sandboxes = <<>>
    /\ sbLock = 0
    /\ destroySandboxes \in BOOLEAN
    /\ cluster \in SUBSET Namespaces
    /\ sbStarted = 0
    /\ sbProc = [p \in Callers |-> NoCall]

SandboxFrame == UNCHANGED <<cdnVars, metricsVars, compVars>>

\* RunWithSandboxFixed is called: the subtest starts and waits for f.lock.
RunWithSandboxFixed(p, sanboxNamespace) ==
    /\ sbProc[p].pc \in {"idle", "done", "failed"}
    /\ sbStarted < MaxCalls
    /\ sbStarted' = sbStarted + 1
    /\ sbProc' = [sbProc EXCEPT ![p] = [NoCall EXCEPT !.pc = "lock", !.ns = sanboxNamespace]]
    /\ UNCHANGED <<sandboxes, sbLock, destroySandboxes, cluster>>
    /\ SandboxFrame

\* f.lock.Lock(); sandbox := &Sandbox{...}
LockFramework(p) ==
    /\ sbProc[p].pc = "lock"
    /\ sbLock = 0
    /\ sbLock' = p
    /\ sbProc' = [sbProc EXCEPT ![p].pc = "check",
                                ![p].sandbox = Ptr(NewSandbox(FreshSandboxId, sbProc[p].ns))]
    /\ UNCHANGED <<sandboxes, destroySandboxes, cluster, sbStarted>>
    /\ SandboxFrame

\* AlreadyRegistered comparing the sandboxes themselves, not their Namespace.
AlreadyRegisteredByPointer(sandbox) ==
    \E i \in 1..Len(sandboxes) : sandboxes[i] = sandbox

\* for _, s := range f.sandboxes { if s.Namespace == sandbox.Namespace {...} }
AlreadyRegistered(sandbox) ==
    \E i \in 1..Len(sandboxes) : sandboxes[i].Namespace = sandbox.Namespace

CheckRegistered(p) ==
    /\ sbProc[p].pc = "check"
    /\ IF AlreadyRegistered(Deref(sbProc[p].sandbox))
       THEN /\ sbLock' = 0
            /\ sbProc' = [sbProc EXCEPT
                             ![p].pc = "failed",
                             ![p].fatal = "was created previously by the framework"]
       ELSE /\ sbProc' = [sbProc EXCEPT ![p].pc = "create"]
            /\ UNCHANGED sbLock
    /\ UNCHANGED <<sandboxes, destroySandboxes, cluster, sbStarted>>
    /\ SandboxFrame

\* Ensure, first half: Namespaces().Create and the test of its error.
EnsureCreateNamespace(p) ==
    /\ sbProc[p].pc = "create"
    /\ \E err \in CreateAnswers(sbProc[p].ns) :
          /\ cluster' = IF err = NilError THEN cluster \cup {sbProc[p].ns} ELSE cluster
          /\ sbProc' = [sbProc EXCEPT
                           ![p].createErr = err,
                           ![p].created = TRUE,
                           ![p].pc = IF CreateErrorIsFatal(err) THEN "ensured" ELSE "env",
                           ![p].ensureRet = IF CreateErrorIsFatal(err) THEN err ELSE NilError,
                           ![p].ensured = CreateErrorIsFatal(err)]
    /\ UNCHANGED <<sandboxes, sbLock, destroySandboxes, sbStarted>>
    /\ SandboxFrame

\* Ensure, second half: s.ValidatorEnv, err = fuzz.NewDefaultValidatorEnv(...)
EnsureValidatorEnv(p) ==
    /\ sbProc[p].pc = "env"
    /\ \E err \in {NilError, ErrValidatorEnv} :
          sbProc' = [sbProc EXCEPT
                        ![p].sandbox =
                            Ptr([Deref(sbProc[p].sandbox) EXCEPT
                                    !.ValidatorEnv =
                                        IF err = NilError
                                        THEN Ptr([namespace |-> sbProc[p].ns])
                                        ELSE NilPtr]),
                        ![p].envErr = err,
                        ![p].ensureRet = err,
                        ![p].ensured = TRUE,
                        ![p].pc = "ensured"]
    /\ UNCHANGED <<sandboxes, sbLock, destroySandboxes, cluster, sbStarted>>
    /\ SandboxFrame

\* if err := sandbox.Ensure(); err != nil { unlock; t.Fatalf }
\* f.sandboxes = append(f.sandboxes, sandbox); f.lock.Unlock()
AfterEnsure(p) ==
    /\ sbProc[p].pc = "ensured"
    /\ sbLock' = 0
    /\ IF sbProc[p].ensureRet # NilError
       THEN /\ sbProc' = [sbProc EXCEPT ![p].pc = "failed",
                                        ![p].fatal = "error creating sandbox"]
            /\ UNCHANGED sandboxes
       ELSE /\ sandboxes' = Append(sandboxes, Deref(sbProc[p].sandbox))
            /\ sbProc' = [sbProc EXCEPT ![p].pc = "run"]
    /\ UNCHANGED <<destroySandboxes, cluster, sbStarted>>
    /\ SandboxFrame

\* testFunc(t, sandbox)
RunTestFunc(p) ==
    /\ sbProc[p].pc = "run"
    /\ sbProc' = [sbProc EXCEPT ![p].ran = sbProc[p].sandbox, ![p].pc = "dump"]
    /\ UNCHANGED <<sandboxes, sbLock, destroySandboxes, cluster, sbStarted>>
    /\ SandboxFrame

\* defer sandbox.DumpSandboxInfo(t), the last deferred call and the first to run
DumpSandboxInfo(p) ==
    /\ sbProc[p].pc = "dump"
    /\ sbProc' = [sbProc EXCEPT ![p].dumped = TRUE,
                                ![p].pc = IF destroySandboxes THEN "destroy" ELSE "done"]
    /\ UNCHANGED <<sandboxes, sbLock, destroySandboxes, cluster, sbStarted>>
    /\ SandboxFrame

\* if f.destroySandboxes { defer sandbox.Destroy() }
Destroy(p) ==
    /\ sbProc[p].pc = "destroy"
    /\ sbProc' = [sbProc EXCEPT ![p].destroyed = TRUE, ![p].pc = "done"]
    /\ UNCHANGED <<sandboxes, sbLock, destroySandboxes, cluster, sbStarted>>
    /\ SandboxFrame

\* The cluster is shared: a namespace appears or goes away by other hands
\* (another test run, a namespace deletion completing).
ClusterChange ==
    /\ \E ns \in Namespaces :
          cluster' = IF ns \in cluster THEN cluster \ {ns} ELSE cluster \cup {ns}
    /\ UNCHANGED <<sandboxes, sbLock, destroySandboxes, sbStarted, sbProc>>
    /\ SandboxFrame

SandboxNext ==
    \/ \E p \in Callers, ns \in Namespaces : RunWithSandboxFixed(p, ns)
    \/ \E p \in Callers : LockFramework(p)
    \/ \E p \in Callers : CheckRegistered(p)
    \/ \E p \in Callers : EnsureCreateNamespace(p)
    \/ \E p \in Callers : EnsureValidatorEnv(p)
    \/ \E p \in Callers : AfterEnsure(p)
    \/ \E p \in Callers : RunTestFunc(p)
    \/ \E p \in Callers : DumpSandboxInfo(p)
    \/ \E p \in Callers : Destroy(p)
    \/ ClusterChange

(***************************************************************************)
(* Specifications                                                          *)
(***************************************************************************)
InitCDN == CdnInit /\ MetricsIdle /\ CompIdle /\ SandboxIdle
SpecCDN == InitCDN /\ [][EnsureCDNCall]_vars

InitMetrics == CdnIdle /\ MetricsIdle /\ CompIdle /\ SandboxIdle
SpecMetrics == InitMetrics /\ [][MetricsNext]_vars

InitComposite == CdnIdle /\ MetricsIdle /\ CompIdle /\ SandboxIdle
SpecComposite == InitComposite /\ [][CompNext]_vars

InitSandbox == CdnIdle /\ MetricsIdle /\ CompIdle /\ SandboxInit
SpecSandbox == InitSandbox /\ [][SandboxNext]_vars

(***************************************************************************)
(* Claims on EnsureCDN / applyCDNSettings                                  *)
(***************************************************************************)
CDNCalled == cdnRet # "none"

CDNOverwritten == be.EnableCDN # bePrev.EnableCDN \/ be.CdnPolicy # bePrev.CdnPolicy

\* C1: EnsureCDN returns true exactly when EnableCDN or CdnPolicy of the
\* BackendService after the call differs from its value before the call; with
\* a nil Cdn configuration it returns false and leaves the BackendService
\* unchanged.
C1_EnsureCDNTrueIffOverwritten ==
    CDNCalled =>
        /\ (cdnRet = "true") <=> CDNOverwritten
        /\ IsNil(cdnConfig) => (cdnRet = "false" /\ be = bePrev)

\* EnsureCDN returned true after replacing a CdnPolicy that was set, with
\* EnableCDN already as configured.
C1_Witness ==
    /\ cdnRet = "true"
    /\ ~IsNil(bePrev.CdnPolicy)
    /\ be.CdnPolicy # bePrev.CdnPolicy
    /\ be.EnableCDN = bePrev.EnableCDN

\* The value of a CdnPolicy field of a BackendService; a BackendService with
\* no CdnPolicy has the zero value of every field.
CdnField(b, field) ==
    IF IsNil(b.CdnPolicy) THEN NewCdnPolicy[field] ELSE Deref(b.CdnPolicy)[field]

CacheKeyField(b, field) ==
    IF IsNil(b.CdnPolicy) \/ IsNil(Deref(b.CdnPolicy).CacheKeyPolicy)
    THEN ZeroCacheKeyPolicy[field]
    ELSE Deref(Deref(b.CdnPolicy).CacheKeyPolicy)[field]

CacheKeyFields ==
    {"IncludeHost", "IncludeProtocol", "IncludeQueryString",
     "QueryStringBlacklist", "QueryStringWhitelist"}

\* A pointer field of the configuration is copied when given, and the
\* BackendService's field keeps its value when not.
PtrFieldSetExactly(ptr, field) ==
    IF IsNil(ptr)
    THEN CdnField(be, field) = CdnField(bePrev, field)
    ELSE ~IsNil(be.CdnPolicy) /\ CdnField(be, field) = Deref(ptr)

\* C2: after EnsureCDN with a Cdn configuration, every CDN field the
\* configuration specifies has the configured value and every field it does
\* not specify has the value it had before the call.
C2_SetsExactlySpecifiedFields ==
    (CDNCalled /\ ~IsNil(cdnConfig)) =>
        LET cfg == Deref(cdnConfig)
        IN /\ be.EnableCDN = cfg.Enabled
           /\ IF IsNil(cfg.CachePolicy)
              THEN \A f \in CacheKeyFields : CacheKeyField(be, f) = CacheKeyField(bePrev, f)
              ELSE /\ ~IsNil(be.CdnPolicy)
                   /\ ~IsNil(Deref(be.CdnPolicy).CacheKeyPolicy)
                   /\ \A f \in CacheKeyFields :
                          CacheKeyField(be, f) = Deref(cfg.CachePolicy)[f]
           /\ PtrFieldSetExactly(cfg.CacheMode, "CacheMode")
           /\ PtrFieldSetExactly(cfg.RequestCoalescing, "RequestCoalescing")
           /\ PtrFieldSetExactly(cfg.ServeWhileStaleSec, "ServeWhileStale")

(***************************************************************************)
(* Claims on the L4 ILB metrics                                            *)
(***************************************************************************)
L4Computed == ~IsNil(l4Counts)

L4Got(feature) == Deref(l4Counts)[feature]

\* The stored services, those in success, and those in success with a flag.
Stored == DOMAIN l4ILBServiceMap
StoredInSuccess == {k \in Stored : l4ILBServiceMap[k].InSuccess}
StoredGlobalAccess == {k \in StoredInSuccess : l4ILBServiceMap[k].EnabledGlobalAccess}
StoredCustomSubnet == {k \in StoredInSuccess : l4ILBServiceMap[k].EnabledCustomSubnet}

\* Every SetL4ILBService call so far used a key of its own.
L4DistinctKeys == l4SetCalls = Cardinality(Stored)

\* C3: computeL4ILBMetrics reports l4ILBService equal to the number of stored
\* services (the number of calls when their keys were distinct),
\* l4ILBInSuccess the number of stored services in success and
\* l4ILBInSuccess + l4ILBInError = l4ILBService; with no service stored all
\* five counters are present with value 0.
C3_ServiceTallies ==
    L4Computed =>
        /\ DOMAIN Deref(l4Counts) = L4Features
        /\ L4Got(l4ILBService) = Cardinality(Stored)
        /\ L4DistinctKeys => L4Got(l4ILBService) = l4SetCalls
        /\ L4Got(l4ILBInSuccess) = Cardinality(StoredInSuccess)
        /\ L4Got(l4ILBInSuccess) + L4Got(l4ILBInError) = L4Got(l4ILBService)
        /\ l4ILBServiceMap = NewControllerMetrics =>
               \A f \in L4Features : L4Got(f) = 0

\* Counts computed for three services stored by three calls, one in error.
C3_Witness ==
    /\ L4Computed
    /\ l4SetCalls = 3
    /\ L4DistinctKeys
    /\ L4Got(l4ILBInSuccess) = 2
    /\ L4Got(l4ILBInError) = 1

\* C4: l4ILBGlobalAccess and l4ILBCustomSubnet count only the services in
\* success with the flag set; a service in error adds to neither.
C4_FeaturesOnlyInSuccess ==
    L4Computed =>
        /\ L4Got(l4ILBGlobalAccess) = Cardinality(StoredGlobalAccess)
        /\ L4Got(l4ILBCustomSubnet) = Cardinality(StoredCustomSubnet)

\* Counts computed with a service in error that has both flags set, next to a
\* service in success that has them set too.
C4_Witness ==
    /\ L4Computed
    /\ \E k \in DOMAIN l4ILBServiceMap :
          LET st == l4ILBServiceMap[k]
          IN ~st.InSuccess /\ st.EnabledGlobalAccess /\ st.EnabledCustomSubnet
    /\ L4Got(l4ILBGlobalAccess) = 1
    /\ L4Got(l4ILBCustomSubnet) = 1

(***************************************************************************)
(* Claims on the composite functions                                       *)
(***************************************************************************)
CompInvoked == compOp # "none"

ProxySetters ==
    {"SetUrlMapForTargetHttpsProxy", "SetSslCertificateForTargetHttpsProxy",
     "SetUrlMapForTargetHttpProxy", "SetProxyForForwardingRule"}

SignedUrlKeyFunctions == {"AddSignedUrlKey", "DeleteSignedUrlKey"}

\* The API version a resource's Version designates: alpha, beta, otherwise GA.
DesignatedVersion ==
    IF compIn.resource.Version \in {VersionAlpha, VersionBeta}
    THEN compIn.resource.Version
    ELSE VersionGA

\* The collection the caller's key designates: regional for a Regional key,
\* otherwise global.
DesignatedScope ==
    IF compIn.key.Region # "" /\ compIn.key.Zone = "" THEN Regional ELSE Global

\* C5: one invocation of a composite function issues at most one call of a
\* client method (and, inside gceBackendServices, at most one request); when
\* the call is issued the function returns what the call returned, nil on
\* success and the call's error otherwise.
C5_ErrorsPassThroughNoRetry ==
    CompInvoked =>
        /\ Len(compOut.calls) <= 1
        /\ Len(compOut.http) <= 1
        /\ Len(compOut.calls) = 1 =>
              /\ compOut.ret = compOut.calls[1].err
              /\ compOp \notin SignedUrlKeyFunctions => compOut.ret = compEnv.sdk[1]
        /\ Len(compOut.http) = 1 =>
              compOut.ret = IF compEnv.do[1] # NoError THEN compEnv.do[1] ELSE compEnv.wait

\* A setter whose only call failed, and which returned that failure.
C5_Witness ==
    /\ compOp = "SetUrlMapForTargetHttpsProxy"
    /\ Len(compOut.calls) = 1
    /\ compEnv.sdk = <<"googleapi: Error 503", NoError>>
    /\ compOut.ret = "googleapi: Error 503"

SetterResource ==
    IF compOp \in {"SetUrlMapForTargetHttpsProxy", "SetSslCertificateForTargetHttpsProxy"}
    THEN "targetHttpsProxies"
    ELSE IF compOp = "SetUrlMapForTargetHttpProxy" THEN "targetHttpProxies"
    ELSE "forwardingRules"

SetterMethod ==
    IF compOp \in {"SetUrlMapForTargetHttpsProxy", "SetUrlMapForTargetHttpProxy"}
    THEN "SetUrlMap"
    ELSE IF compOp = "SetSslCertificateForTargetHttpsProxy" THEN "SetSslCertificates"
    ELSE "SetTarget"

\* C6: each proxy / forwarding-rule setter makes exactly one call, on the
\* client of the resource's version (alpha, beta, otherwise GA) and of the
\* key's scope (regional for a Regional key, otherwise global), and the call
\* carries the link or URLs the caller passed.
C6_SettersDispatchByVersionAndScope ==
    compOp \in ProxySetters =>
        /\ Len(compOut.calls) = 1
        /\ compOut.calls[1].client =
              Client(DesignatedVersion, DesignatedScope, SetterResource)
        /\ compOut.calls[1].method = SetterMethod
        /\ compOut.calls[1].arg.value = compIn.arg
        /\ compOut.calls[1].arg.api = DesignatedVersion
        /\ compOut.calls[1].key =
              [compIn.key EXCEPT !.Name = compIn.resource.Name]

\* A forwarding rule without a version and a zonal key: the GA global client.
C6_Witness ==
    /\ compOp = "SetProxyForForwardingRule"
    /\ compIn.resource.Version = ""
    /\ compIn.key.Zone # ""
    /\ compOut.calls[1].client = GlobalForwardingRules
    /\ compOut.calls[1].arg.value = "link-b"

\* C7: AddSignedUrlKey and DeleteSignedUrlKey issue their request against the
\* API version the BackendService designates and the regional or global
\* backend-service collection the key designates.
C7_SignedUrlKeyDispatch ==
    (compOp \in SignedUrlKeyFunctions /\ Len(compOut.http) = 1) =>
        /\ compOut.http[1].api = DesignatedVersion
        /\ compOut.http[1].scope = DesignatedScope

\* C9: SetSslPolicyForTargetHttpsProxy with a Regional key returns the "not
\* supported for regional Target Https Proxies" error and makes no call, for
\* every version; otherwise it makes exactly one SetSslPolicy call on the
\* client of the proxy's version.
C9_SslPolicyRejectsRegional ==
    compOp = "SetSslPolicyForTargetHttpsProxy" =>
        IF DesignatedScope = Regional
        THEN /\ compOut.ret = ErrSslPolicyRegional
             /\ compOut.calls = <<>>
        ELSE /\ Len(compOut.calls) = 1
             /\ compOut.calls[1].method = "SetSslPolicy"
             /\ compOut.calls[1].client =
                   Client(DesignatedVersion, Global, "targetHttpsProxies")

\* A beta proxy with a Regional key: refused without a call.
C9_Witness ==
    /\ compOp = "SetSslPolicyForTargetHttpsProxy"
    /\ compIn.resource.Version = VersionBeta
    /\ DesignatedScope = Regional
    /\ compOut.ret = ErrSslPolicyRegional
    /\ compOut.calls = <<>>

\* C10: SetSecurityPolicy returns an error and makes no call when the backend
\* service's Scope is not Global, whatever the version and the policy; for a
\* Global one it makes a SetSecurityPolicy call, with the global key built
\* from the backend service's Name.
C10_SecurityPolicyOnlyGlobal ==
    compOp = "SetSecurityPolicy" =>
        IF compIn.resource.Scope # Global
        THEN /\ compOut.ret # NoError
             /\ compOut.calls = <<>>
        ELSE /\ Len(compOut.calls) = 1
             /\ compOut.calls[1].method = "SetSecurityPolicy"
             /\ compOut.calls[1].client.resource = "backendServices"
             /\ compOut.calls[1].key =
                   [Name |-> compIn.resource.Name, Region |-> "", Zone |-> ""]

\* An alpha regional backend service and a policy to set: refused, no call.
C10_Witness ==
    /\ compOp = "SetSecurityPolicy"
    /\ compIn.resource.Scope = Regional
    /\ compIn.resource.Version = VersionAlpha
    /\ compIn.arg = "policy-a"
    /\ compOut.ret = ErrSecurityPolicyScope
    /\ compOut.calls = <<>>

(***************************************************************************)
(* Claims on RunWithSandboxFixed / Sandbox.Ensure                          *)
(***************************************************************************)
Registered(sandbox) == \E i \in 1..Len(sandboxes) : sandboxes[i] = sandbox

\* C8: when creating the namespace fails with an "already exists" error,
\* Ensure goes on as after a successful creation: it returns nil (the
\* validator env permitting), the sandbox is registered and testFunc is run
\* with that sandbox; any other creation error, and a validator-env error, is
\* what Ensure returns.
C8_ExistingNamespaceReused ==
    \A p \in Callers :
        LET c == sbProc[p]
            exists == HasSuffix(c.createErr, AlreadyExistsSuffix)
        IN /\ (c.ensured /\ exists /\ c.envErr = NilError) => c.ensureRet = NilError
           /\ (c.ensured /\ c.createErr # NilError /\ ~exists) => c.ensureRet = c.createErr
           /\ (c.ensured /\ c.envErr # NilError) => c.ensureRet = c.envErr
           /\ (c.ensured /\ c.ensureRet = NilError) =>
                 /\ c.pc \in {"ensured", "run", "dump", "destroy", "done"}
                 /\ c.pc # "ensured" => Registered(Deref(c.sandbox))
                 /\ c.pc \in {"dump", "destroy", "done"} => c.ran = c.sandbox

\* A call whose namespace existed already, finished after testFunc ran with
\* the registered sandbox.
C8_Witness ==
    \E p \in Callers :
        /\ sbProc[p].pc = "done"
        /\ sbProc[p].createErr = ErrAlreadyExists(sbProc[p].ns)
        /\ sbProc[p].ran = sbProc[p].sandbox
        /\ Registered(Deref(sbProc[p].sandbox))

(***************************************************************************)
(* Claims on the security-policy reference of SetSecurityPolicy            *)
(***************************************************************************)
\* The URL prefix of an API version of the compute API.
ApiPrefix(version) ==
    IF version = VersionAlpha THEN "https://www.googleapis.com/compute/alpha"
    ELSE IF version = VersionBeta THEN "https://www.googleapis.com/compute/beta"
    ELSE "https://www.googleapis.com/compute/v1"

\* The self-link of the global securityPolicies resource called name, in the
\* project, for an API version.
GlobalSecurityPolicyLink(version, name) ==
    <<ApiPrefix(version), "projects", ProjectID, "global", "securityPolicies", name>>

\* C11: for a Global backend service, SetSecurityPolicy sends a nil reference
\* exactly when securityPolicy is the empty string; otherwise it sends a
\* reference whose link is the self-link of the global securityPolicies
\* resource of that name, built for the API version of the client that
\* receives the call.
C11_SecurityPolicyRefMatchesClient ==
    (compOp = "SetSecurityPolicy" /\ compIn.resource.Scope = Global) =>
        /\ Len(compOut.calls) = 1
        /\ LET call == compOut.calls[1]
           IN /\ IsNil(call.arg) <=> compIn.arg = ""
              /\ call.client.version = DesignatedVersion
              /\ ~IsNil(call.arg) =>
                    /\ Deref(call.arg).value =
                          GlobalSecurityPolicyLink(call.client.version, compIn.arg)
                    /\ Deref(call.arg).api = call.client.version

\* A beta Global backend service given a policy: the beta client receives a
\* reference to the policy's beta self-link.
C11_Witness ==
    /\ compOp = "SetSecurityPolicy"
    /\ compIn.resource.Scope = Global
    /\ compIn.resource.Version = VersionBeta
    /\ compIn.arg = "policy-a"
    /\ Len(compOut.calls) = 1
    /\ compOut.calls[1].client = BetaBackendServices
    /\ Deref(compOut.calls[1].arg).value =
          <<"https://www.googleapis.com/compute/beta", "projects", ProjectID,
            "global", "securityPolicies", "policy-a">>

(***************************************************************************)
(* Claims on the namespaces registered by RunWithSandboxFixed              *)
(***************************************************************************)
ErrCreatedPreviously == "was created previously by the framework"

\* The calls that failed because their namespace was registered already.
RejectedCallers == {p \in Callers : sbProc[p].fatal = ErrCreatedPreviously}

\* C12: f.sandboxes never holds two sandboxes with the same Namespace; a call
\* whose namespace is that of a registered sandbox fails the test with "was
\* created previously by the framework", without calling Ensure, without
\* appending its sandbox and without running testFunc.
C12_NoDuplicateNamespace ==
    /\ \A i, j \in 1..Len(sandboxes) :
          sandboxes[i].Namespace = sandboxes[j].Namespace => i = j
    /\ \A p \in Callers :
          LET c == sbProc[p]
          IN /\ c.pc \in {"create", "env", "ensured"} =>
                   ~AlreadyRegistered(Deref(c.sandbox))
             /\ p \in RejectedCallers =>
                   /\ c.pc = "failed"
                   /\ AlreadyRegistered(Deref(c.sandbox))
                   /\ ~c.created /\ ~c.ensured
                   /\ c.createErr = NilError /\ c.envErr = NilError
                   /\ \A i \in 1..Len(sandboxes) :
                         sandboxes[i].id # Deref(c.sandbox).id
                   /\ c.ran = NilPtr
                   /\ ~c.dumped /\ ~c.destroyed

\* A call was rejected for the namespace that another call registered, and
\* the framework holds that one sandbox.
C12_Witness ==
    \E p \in RejectedCallers :
        /\ sbProc[p].pc = "failed"
        /\ ~sbProc[p].created
        /\ Len(sandboxes) = 1
        /\ sandboxes[1].Namespace = sbProc[p].ns
        /\ sandboxes[1].id # Deref(sbProc[p].sandbox).id

====
